---- MODULE Spec2Model ----
(***************************************************************************)
(* Lesson chat widget (static/chat.js): the conversation history, the      *)
(* visible log, the form controls and the request/response cycle of        *)
(* requestReply, as a state machine over the events the browser delivers   *)
(* (input, submit, toggle click, blur, fetch and body-parse settlement).   *)
(*                                                                         *)
(* Strings are sequences of one-character strings, so that trim() and     *)
(* concatenation are computed rather than assumed.                         *)
(***************************************************************************)
EXTENDS Integers, Sequences, FiniteSets, TLC

\* Accepted submits explored by the model checker (history and log grow
\* with every exchange).
MaxExchanges == 2

\* Accepted submits explored under the fairness specification
MaxLiveExchanges == 1

\* Accepted submits explored with the failure payloads of every shape
MaxDetailExchanges == 1

----------------------------------------------------------------------------
\* String literals of chat.js

\* "You are a concise, friendly assistant who helps students understand the lesson content. Keep answers focused on the provided materials and give short explanations."
SystemPrompt ==
  <<"Y", "o", "u", " ", "a", "r", "e", " ", "a", " ", "c", "o", "n", "c", "i", "s",
    "e", ",", " ", "f", "r", "i", "e", "n", "d", "l", "y", " ", "a", "s", "s", "i",
    "s", "t", "a", "n", "t", " ", "w", "h", "o", " ", "h", "e", "l", "p", "s", " ",
    "s", "t", "u", "d", "e", "n", "t", "s", " ", "u", "n", "d", "e", "r", "s", "t",
    "a", "n", "d", " ", "t", "h", "e", " ", "l", "e", "s", "s", "o", "n", " ", "c",
    "o", "n", "t", "e", "n", "t", ".", " ", "K", "e", "e", "p", " ", "a", "n", "s",
    "w", "e", "r", "s", " ", "f", "o", "c", "u", "s", "e", "d", " ", "o", "n", " ",
    "t", "h", "e", " ", "p", "r", "o", "v", "i", "d", "e", "d", " ", "m", "a", "t",
    "e", "r", "i", "a", "l", "s", " ", "a", "n", "d", " ", "g", "i", "v", "e", " ",
    "s", "h", "o", "r", "t", " ", "e", "x", "p", "l", "a", "n", "a", "t", "i", "o",
    "n", "s", ".">>

\* "..."
Ellipsis ==
  <<".", ".", ".">>

\* "Network error. Please try again."
NetworkErrorText ==
  <<"N", "e", "t", "w", "o", "r", "k", " ", "e", "r", "r", "o", "r", ".", " ", "P",
    "l", "e", "a", "s", "e", " ", "t", "r", "y", " ", "a", "g", "a", "i", "n", ".">>

\* "Invalid response from server."
InvalidResponseText ==
  <<"I", "n", "v", "a", "l", "i", "d", " ", "r", "e", "s", "p", "o", "n", "s", "e",
    " ", "f", "r", "o", "m", " ", "s", "e", "r", "v", "e", "r", ".">>

\* "Could not get a reply"
CouldNotGetReply ==
  <<"C", "o", "u", "l", "d", " ", "n", "o", "t", " ", "g", "e", "t", " ", "a", " ",
    "r", "e", "p", "l", "y">>

\* "I do not have an answer right now."
FallbackText ==
  <<"I", " ", "d", "o", " ", "n", "o", "t", " ", "h", "a", "v", "e", " ", "a", "n",
    " ", "a", "n", "s", "w", "e", "r", " ", "r", "i", "g", "h", "t", " ", "n", "o",
    "w", ".">>

\* "gpt-5-2025-08-07"
ModelId ==
  "gpt-5-2025-08-07"

----------------------------------------------------------------------------
\* String.prototype.trim

WhiteSpace ==
  {" ", "\t", "\n"}

RECURSIVE TrimStart(_)
TrimStart(s) ==
  IF s # <<>> /\ Head(s) \in WhiteSpace THEN TrimStart(Tail(s)) ELSE s

RECURSIVE TrimEnd(_)
TrimEnd(s) ==
  IF s # <<>> /\ s[Len(s)] \in WhiteSpace
  THEN TrimEnd(SubSeq(s, 1, Len(s) - 1))
  ELSE s

Trim(s) ==
  TrimEnd(TrimStart(s))

----------------------------------------------------------------------------
\* JavaScript values as they reach the script: dataset attributes and the
\* result of response.json().  t is the typeof-level tag; objects carry a
\* function from property names to values.

Undefined ==
  [t |-> "undefined"]

JNull ==
  [t |-> "null"]

JStr(s) ==
  [t |-> "string", v |-> s]

JNum(n) ==
  [t |-> "number", v |-> n]

JBool(b) ==
  [t |-> "boolean", v |-> b]

JObj(f) ==
  [t |-> "object", v |-> f]

\* ToBoolean: the test of `if (x)`, `!x`, `x && ...`, `x || ...`
Truthy(x) ==
  CASE x.t = "undefined" -> FALSE
    [] x.t = "null" -> FALSE
    [] x.t = "string" -> x.v # <<>>
    [] x.t = "number" -> x.v # 0
    [] x.t = "boolean" -> x.v
    [] OTHER -> TRUE

\* x.k for a non-null x: own property of an object, undefined otherwise
\* (none of the names read by the script exists on a primitive's prototype)
Get(x, k) ==
  IF x.t = "object" /\ k \in DOMAIN x.v THEN x.v[k] ELSE Undefined

IsString(x) ==
  x.t = "string"

----------------------------------------------------------------------------
\* Inputs of the environment

\* body.dataset.lessonKey: attribute absent, empty, or set
LessonKeys ==
  { Undefined, JStr(<<>>), JStr(<<"l", "1">>) }

\* The host page: document.body may be missing when the script runs
Hosts ==
  [body : BOOLEAN, lessonKey : LessonKeys]

\* Values the text field can hold when a submit event is dispatched
InputValues ==
  { <<>>, <<" ", " ">>, <<" ", "a", " ">>, <<"b">> }

\* "rate_limited"
RateLimited ==
  <<"r", "a", "t", "e", "_", "l", "i", "m", "i", "t", "e", "d">>

\* Bodies the server can answer with, after JSON parsing
Payloads ==
  { JNull,
    JObj([text |-> JStr(<<" ", "h", "i", " ">>)]),
    JObj([text |-> JStr(<<" ">>)]),
    JObj([text |-> JNum(5)]),
    JObj([error |-> JStr(RateLimited)]) }

NoPayload ==
  Undefined

\* "bad token"
BadToken ==
  <<"b", "a", "d", " ", "t", "o", "k", "e", "n">>

\* "quota"
Quota ==
  <<"q", "u", "o", "t", "a">>

\* An object with none of the properties the script reads
Opaque ==
  JObj([code |-> JNum(5)])

\* Failure bodies: each of message, error and details.error absent, usable,
\* or present without yielding a string
DetailPayloads ==
  { JNull,
    Opaque,
    JObj([text |-> JStr(<<"h", "i">>), error |-> JStr(RateLimited)]),
    JObj([message |-> JStr(<<" ", "q", "u", "o", "t", "a", " ">>)]),
    JObj([message |-> JStr(Quota), error |-> JStr(RateLimited)]),
    JObj([message |-> JStr(<<" ">>), error |-> JStr(RateLimited)]),
    JObj([message |-> JNum(7), error |-> JStr(RateLimited)]),
    JObj([message |-> JStr(<<>>), details |-> JObj([error |-> JStr(BadToken)])]),
    JObj([error |-> JStr(RateLimited)]),
    JObj([error |-> JStr(RateLimited),
          details |-> JObj([error |-> JStr(BadToken)])]),
    JObj([error |-> JStr(<<>>), details |-> JObj([error |-> JStr(BadToken)])]),
    JObj([error |-> Opaque, details |-> JObj([error |-> JStr(BadToken)])]),
    JObj([error |-> JNum(5),
          details |-> JObj([error |-> JObj([message |-> JStr(BadToken)])])]),
    JObj([details |-> JObj([error |-> JStr(BadToken)])]),
    JObj([details |-> JObj([error |-> JObj([message |-> JStr(BadToken)])])]),
    JObj([details |-> JObj([error |-> Opaque])]),
    JObj([details |-> Opaque]),
    JObj([details |-> JStr(BadToken)]) }

----------------------------------------------------------------------------
\* State

VARIABLES
  host,               \* the embedding page the script was loaded into
  mounted,            \* widget built, attached to body, listeners registered
  history,            \* const history: sequence of {role, text}
  log,                \* children of the log element: [classes, text]
  inputValue,         \* input.value
  inputDisabled,      \* input.disabled
  sendDisabled,       \* send.disabled
  containerClasses,   \* container.classList
  focus,              \* the focused element: "input", "toggle" or "none"
  calls,              \* activations of requestReply, in call order
  lastEvent           \* the event whose handler or continuation ran last

vars ==
  <<host, mounted, history, log, inputValue, inputDisabled, sendDisabled,
    containerClasses, focus, calls, lastEvent>>

\* WidgetState of the specification, read off the DOM
pending ==
  sendDisabled

open ==
  "open" \in containerClasses

\* type: the kind of event; call: the activation it resumed (0 if none);
\* ok, payload: the response status and the parsed body it delivered
Event(type, call, ok, payload) ==
  [type |-> type, call |-> call, ok |-> ok, payload |-> payload]

----------------------------------------------------------------------------
\* Helpers of the script

\* appendRow(role, text): the log with the new row as its last child
appendRow(rows, role, text) ==
  Append(rows, [classes |-> {"lesson-chat-row", role}, text |-> text])

\* the text replaced without classList.add("meta")
MarkMetaTextOnly(rows, node, text) ==
  [rows EXCEPT ![node].text = text]

\* assistantNode.classList.add("meta"); assistantNode.textContent = text
MarkMeta(rows, node, text) ==
  [rows EXCEPT ![node] = [classes |-> @.classes \cup {"meta"}, text |-> text]]

\* the reply added as a new row instead of replacing the placeholder text
SetTextAppendsRow(rows, node, text) ==
  Append(rows, [classes |-> {"lesson-chat-row", "bot"}, text |-> text])

\* assistantNode.textContent = text
SetText(rows, node, text) ==
  [rows EXCEPT ![node].text = text]

\* history.push({ role: "user", text: message })
pushUser(h, message) ==
  Append(h, [role |-> "user", text |-> message])

\* the assistant turn not recorded
pushAssistantDropped(h, text) ==
  h

\* the assistant turn stored over the last entry instead of after it
pushAssistantOverwrites(h, text) ==
  [h EXCEPT ![Len(h)] = [role |-> "assistant", text |-> text]]

\* history.push({ role: "assistant", text: assistantNode.textContent })
pushAssistant(h, text) ==
  Append(h, [role |-> "assistant", text |-> text])

\* input.focus(): a disabled control cannot take focus
InputFocus(disabled, current) ==
  IF disabled THEN current ELSE "input"

\* Where focus can be once the focused field has been disabled: browsers
\* either leave it on the field or move it to the document
FocusAfterDisable(current) ==
  IF current = "input" THEN {"input", "none"} ELSE {current}

\* setPending with the line `input.disabled = isPending` lost
setPendingSendOnly(isPending) ==
  /\ inputDisabled' = inputDisabled
  /\ sendDisabled' = isPending
  /\ IF ~isPending
     THEN focus' = InputFocus(inputDisabled', focus)
     ELSE focus' \in FocusAfterDisable(focus)

\* setPending without the input.focus() call
setPendingNoFocus(isPending) ==
  /\ inputDisabled' = isPending
  /\ sendDisabled' = isPending
  /\ IF ~isPending
     THEN focus' = focus
     ELSE focus' \in FocusAfterDisable(focus)

\* setPending(isPending)
setPending(isPending) ==
  /\ inputDisabled' = isPending
  /\ sendDisabled' = isPending
  /\ IF ~isPending
     THEN focus' = InputFocus(inputDisabled', focus)
     ELSE focus' \in FocusAfterDisable(focus)

\* the guard without the lessonKey test
ActivatesAnyBody(h) ==
  h.body

\* if (!body || !body.dataset.lessonKey) return;
Activates(h) ==
  h.body /\ Truthy(h.lessonKey)

\* the guard without the send.disabled test
SubmitIgnoredEmptyOnly(message, disabled) ==
  message = <<>>

\* the guard without the empty-message test
SubmitIgnoredPendingOnly(message, disabled) ==
  disabled

\* if (!message || send.disabled) return;
SubmitIgnored(message, disabled) ==
  message = <<>> \/ disabled

\* the test without !response.ok
ReplyIsErrorIgnoresStatus(ok, payload) ==
  \/ ~Truthy(payload)
  \/ ~IsString(Get(payload, "text"))

\* if (!response.ok || !payload || typeof payload.text !== "string")
ReplyIsError(ok, payload) ==
  \/ ~ok
  \/ ~Truthy(payload)
  \/ ~IsString(Get(payload, "text"))

\* ` (${s})`
Paren(s) ==
  <<" ", "(">> \o s \o <<")">>

\* The detail suffix of the failure text (let detail = ""; if (payload) ...)
Detail(payload) ==
  IF ~Truthy(payload) THEN <<>>
  ELSE
    LET message == Get(payload, "message")
        error == Get(payload, "error")
        details == Get(payload, "details")
    IN  IF IsString(message) /\ Trim(message.v) # <<>>
        THEN Paren(Trim(message.v))
        ELSE IF Truthy(error)
        THEN (IF IsString(error) THEN Paren(error.v) ELSE <<>>)
        ELSE IF Truthy(details) /\ Truthy(Get(details, "error"))
        THEN LET err == Get(details, "error")
             IN  IF IsString(err) THEN Paren(err.v)
                 ELSE IF Truthy(err) /\ IsString(Get(err, "message"))
                 THEN Paren(Get(err, "message").v)
                 ELSE <<>>
        ELSE <<>>

\* `Could not get a reply${detail}.`
FailureText(payload) ==
  CouldNotGetReply \o Detail(payload) \o <<".">>

\* the reply shown as received, without trim()
ReplyTextUntrimmed(payload) ==
  IF Get(payload, "text").v # <<>>
  THEN Get(payload, "text").v
  ELSE FallbackText

\* payload.text.trim() || "I do not have an answer right now."
ReplyText(payload) ==
  IF Trim(Get(payload, "text").v) # <<>>
  THEN Trim(Get(payload, "text").v)
  ELSE FallbackText

\* An activation that has returned: its frame (response) is gone
Returned(call) ==
  [call EXCEPT !.pc = "done", !.ok = FALSE]

\* Activations of requestReply suspended at an await
InFlight ==
  { i \in DOMAIN calls : calls[i].pc # "done" }

----------------------------------------------------------------------------
\* Initial state: the state once the script has run on the host page

Init ==
  /\ host \in Hosts
  /\ mounted = Activates(host)
  /\ history = IF Activates(host)
               THEN << [role |-> "system", text |-> SystemPrompt] >>
               ELSE << >>
  /\ log = << >>
  /\ inputValue = << >>
  /\ inputDisabled = FALSE
  /\ sendDisabled = FALSE
  /\ containerClasses = IF Activates(host) THEN {"lesson-chat-window"} ELSE {}
  /\ focus = "none"
  /\ calls = << >>
  /\ lastEvent = Event("load", 0, FALSE, NoPayload)

----------------------------------------------------------------------------
\* Events

\* The user (or a script of the page) changes the content of the text field
TypeText(v) ==
  /\ mounted
  /\ inputValue' = v
  /\ lastEvent' = Event("input", 0, FALSE, NoPayload)
  /\ UNCHANGED <<host, mounted, history, log, inputDisabled, sendDisabled,
                 containerClasses, focus, calls>>

\* Focus leaves the widget (click or tab elsewhere)
Blur ==
  /\ mounted
  /\ focus' = "none"
  /\ lastEvent' = Event("blur", 0, FALSE, NoPayload)
  /\ UNCHANGED <<host, mounted, history, log, inputValue, inputDisabled,
                 sendDisabled, containerClasses, calls>>

\* requestReply serialising the request body before the user turn is pushed
requestReplyFetchFirst(message) ==
  /\ history' = pushUser(history, message)
  /\ log' = appendRow(appendRow(log, "me", message), "bot", Ellipsis)
  /\ setPending(TRUE)
  /\ calls' = Append(calls,
                [pc |-> "fetch",
                 assistantNode |-> Len(log) + 2,
                 body |-> [history |-> history, model |-> ModelId],
                 ok |-> FALSE])

\* requestReply keeping the "me" row as assistantNode
requestReplyWrongNode(message) ==
  /\ history' = pushUser(history, message)
  /\ log' = appendRow(appendRow(log, "me", message), "bot", Ellipsis)
  /\ setPending(TRUE)
  /\ calls' = Append(calls,
                [pc |-> "fetch",
                 assistantNode |-> Len(log) + 1,
                 body |-> [history |-> history', model |-> ModelId],
                 ok |-> FALSE])

\* requestReply(message) up to its first await: the request is on the wire
\* and the activation is suspended in fetch
requestReply(message) ==
  /\ history' = pushUser(history, message)
  /\ log' = appendRow(appendRow(log, "me", message), "bot", Ellipsis)
  /\ setPending(TRUE)
  /\ calls' = Append(calls,
                [pc |-> "fetch",
                 assistantNode |-> Len(log) + 2,
                 body |-> [history |-> history', model |-> ModelId],
                 ok |-> FALSE])

\* form "submit" listener; at most max submits are accepted in a run
Submit(max) ==
  /\ mounted
  /\ lastEvent' = Event("submit", 0, FALSE, NoPayload)
  /\ LET message == Trim(inputValue)
     IN  IF SubmitIgnored(message, sendDisabled)
         THEN UNCHANGED <<history, log, inputValue, inputDisabled,
                          sendDisabled, focus, calls>>
         ELSE /\ Len(calls) < max
              /\ inputValue' = << >>
              /\ requestReply(message)
  /\ UNCHANGED <<host, mounted, containerClasses>>

\* the listener refusing to toggle while a request is pending
ToggleClickIgnoredWhilePending ==
  /\ mounted
  /\ containerClasses' = IF sendDisabled THEN containerClasses
                         ELSE IF "open" \in containerClasses
                         THEN containerClasses \ {"open"}
                         ELSE containerClasses \cup {"open"}
  /\ \E clicked \in {focus, "toggle"} :
       focus' = IF "open" \in containerClasses'
                THEN InputFocus(inputDisabled, clicked)
                ELSE clicked
  /\ lastEvent' = Event("click", 0, FALSE, NoPayload)
  /\ UNCHANGED <<host, mounted, history, log, inputValue, inputDisabled,
                 sendDisabled, calls>>

\* the listener calling input.focus() on every click
ToggleClickAlwaysFocuses ==
  /\ mounted
  /\ containerClasses' = IF "open" \in containerClasses
                         THEN containerClasses \ {"open"}
                         ELSE containerClasses \cup {"open"}
  /\ \E clicked \in {focus, "toggle"} :
       focus' = InputFocus(inputDisabled, clicked)
  /\ lastEvent' = Event("click", 0, FALSE, NoPayload)
  /\ UNCHANGED <<host, mounted, history, log, inputValue, inputDisabled,
                 sendDisabled, calls>>

\* toggle "click" listener; the click itself may move focus to the button
ToggleClick ==
  /\ mounted
  /\ containerClasses' = IF "open" \in containerClasses
                         THEN containerClasses \ {"open"}
                         ELSE containerClasses \cup {"open"}
  /\ \E clicked \in {focus, "toggle"} :
       focus' = IF "open" \in containerClasses'
                THEN InputFocus(inputDisabled, clicked)
                ELSE clicked
  /\ lastEvent' = Event("click", 0, FALSE, NoPayload)
  /\ UNCHANGED <<host, mounted, history, log, inputValue, inputDisabled,
                 sendDisabled, calls>>

\* the first catch block also recording the error text as an assistant turn
FetchRejectRecordsError(i) ==
  /\ calls[i].pc = "fetch"
  /\ log' = MarkMeta(log, calls[i].assistantNode, NetworkErrorText)
  /\ history' = pushAssistant(history, NetworkErrorText)
  /\ setPending(FALSE)
  /\ calls' = [calls EXCEPT ![i] = Returned(@)]
  /\ lastEvent' = Event("fetchReject", i, FALSE, NoPayload)
  /\ UNCHANGED <<host, mounted, inputValue, containerClasses>>

\* fetch rejects: the first catch block
FetchReject(i) ==
  /\ calls[i].pc = "fetch"
  /\ log' = MarkMeta(log, calls[i].assistantNode, NetworkErrorText)
  /\ setPending(FALSE)
  /\ calls' = [calls EXCEPT ![i] = Returned(@)]
  /\ lastEvent' = Event("fetchReject", i, FALSE, NoPayload)
  /\ UNCHANGED <<host, mounted, history, inputValue, containerClasses>>

\* fetch resolves with a response of either status class; the activation
\* calls response.json() and is suspended again
FetchResolve(i, ok) ==
  /\ calls[i].pc = "fetch"
  /\ calls' = [calls EXCEPT ![i].pc = "json", ![i].ok = ok]
  /\ lastEvent' = Event("fetchResolve", i, ok, NoPayload)
  /\ UNCHANGED <<host, mounted, history, log, inputValue, inputDisabled,
                 sendDisabled, containerClasses, focus>>

\* the second catch block returning without setPending(false)
JsonRejectKeepsPending(i) ==
  /\ calls[i].pc = "json"
  /\ log' = MarkMeta(log, calls[i].assistantNode, InvalidResponseText)
  /\ calls' = [calls EXCEPT ![i] = Returned(@)]
  /\ lastEvent' = Event("jsonReject", i, calls[i].ok, NoPayload)
  /\ UNCHANGED <<host, mounted, history, inputValue, containerClasses,
                 inputDisabled, sendDisabled, focus>>

\* the second catch block reporting the text of the first
JsonRejectAsNetworkError(i) ==
  /\ calls[i].pc = "json"
  /\ log' = MarkMeta(log, calls[i].assistantNode, NetworkErrorText)
  /\ setPending(FALSE)
  /\ calls' = [calls EXCEPT ![i] = Returned(@)]
  /\ lastEvent' = Event("jsonReject", i, calls[i].ok, NoPayload)
  /\ UNCHANGED <<host, mounted, history, inputValue, containerClasses>>

\* response.json() rejects: the second catch block
JsonReject(i) ==
  /\ calls[i].pc = "json"
  /\ log' = MarkMeta(log, calls[i].assistantNode, InvalidResponseText)
  /\ setPending(FALSE)
  /\ calls' = [calls EXCEPT ![i] = Returned(@)]
  /\ lastEvent' = Event("jsonReject", i, calls[i].ok, NoPayload)
  /\ UNCHANGED <<host, mounted, history, inputValue, containerClasses>>

\* response.json() resolves with payload: the rest of requestReply
JsonResolve(i, payload) ==
  /\ calls[i].pc = "json"
  /\ setPending(FALSE)
  /\ IF ReplyIsError(calls[i].ok, payload)
     THEN /\ log' = MarkMeta(log, calls[i].assistantNode, FailureText(payload))
          /\ UNCHANGED history
     ELSE /\ log' = SetText(log, calls[i].assistantNode, ReplyText(payload))
          /\ history' = pushAssistant(history,
                                       log'[calls[i].assistantNode].text)
  /\ calls' = [calls EXCEPT ![i] = Returned(@)]
  /\ lastEvent' = Event("jsonResolve", i, calls[i].ok, payload)
  /\ UNCHANGED <<host, mounted, inputValue, containerClasses>>

Next ==
  \/ \E v \in InputValues : TypeText(v)
  \/ Blur
  \/ Submit(MaxExchanges)
  \/ ToggleClick
  \/ \E i \in DOMAIN calls : FetchReject(i)
  \/ \E i \in DOMAIN calls, ok \in BOOLEAN : FetchResolve(i, ok)
  \/ \E i \in DOMAIN calls : JsonReject(i)
  \/ \E i \in DOMAIN calls, payload \in Payloads : JsonResolve(i, payload)

Spec ==
  Init /\ [][Next]_vars

\* A settlement of some pending promise: fetch or response.json() resolves
\* or rejects
Settle ==
  \E i \in DOMAIN calls :
    \/ FetchReject(i)
    \/ \E ok \in BOOLEAN : FetchResolve(i, ok)
    \/ JsonReject(i)
    \/ \E payload \in Payloads : JsonResolve(i, payload)

LiveNext ==
  \/ \E v \in InputValues : TypeText(v)
  \/ Blur
  \/ Submit(MaxLiveExchanges)
  \/ ToggleClick
  \/ Settle

\* The network call and the body parsing each eventually resolve or reject
LiveSpec ==
  Init /\ [][LiveNext]_vars /\ WF_vars(Settle)

\* The widget answered by failure bodies of every shape
DetailNext ==
  \/ \E v \in InputValues : TypeText(v)
  \/ Blur
  \/ Submit(MaxDetailExchanges)
  \/ ToggleClick
  \/ \E i \in DOMAIN calls : FetchReject(i)
  \/ \E i \in DOMAIN calls, ok \in BOOLEAN : FetchResolve(i, ok)
  \/ \E i \in DOMAIN calls : JsonReject(i)
  \/ \E i \in DOMAIN calls, payload \in DetailPayloads : JsonResolve(i, payload)

DetailSpec ==
  Init /\ [][DetailNext]_vars

----------------------------------------------------------------------------
\* Vocabulary of the properties

\* Events that end an exchange
Completions ==
  { "fetchReject", "jsonReject", "jsonResolve" }

\* The payload is an object with a string-typed text field
HasStringText(payload) ==
  /\ payload.t = "object"
  /\ "text" \in DOMAIN payload.v
  /\ payload.v["text"].t = "string"

\* The event delivered a parsed body with an ok status and a string text
Succeeded(ev) ==
  ev.type = "jsonResolve" /\ ev.ok /\ HasStringText(ev.payload)

UserTurn(text) ==
  [role |-> "user", text |-> text]

StartsWith(s, prefix) ==
  Len(s) >= Len(prefix) /\ SubSeq(s, 1, Len(prefix)) = prefix

EndsWith(s, suffix) ==
  Len(s) >= Len(suffix)
    /\ SubSeq(s, Len(s) - Len(suffix) + 1, Len(s)) = suffix

----------------------------------------------------------------------------
\* C1: at most one request is in flight in every reachable state; a request
\* is only ever issued by a submit event that arrives while none is in
\* flight (a submit during an unresolved request issues nothing, and no
\* later event issues a request on its behalf).
C1_SingleRequestInFlight ==
  /\ [](Cardinality(InFlight) <= 1)
  /\ [][Len(calls') >= Len(calls)
        /\ (Len(calls') > Len(calls) =>
              /\ lastEvent'.type = "submit"
              /\ InFlight = {}
              /\ Len(calls') = Len(calls) + 1)]_vars

\* A submit with a non-empty message was dispatched while the first request
\* was unresolved, and was dropped although more submits could be accepted
C1_Witness ==
  /\ lastEvent.type = "submit"
  /\ Trim(inputValue) # <<>>
  /\ Len(calls) = 1
  /\ Len(calls) < MaxExchanges
  /\ calls[1].pc = "json"

\* C2: a submit event whose trimmed input is empty, or that occurs while
\* pending is true, changes neither history nor the log and issues no
\* request.
C2_IgnoredSubmitIsNoOp ==
  [][(lastEvent'.type = "submit" /\ (Trim(inputValue) = <<>> \/ pending))
       => UNCHANGED <<history, log, calls>>]_vars

\* A whitespace-only submit was dispatched while idle, after one exchange
C2_Witness ==
  /\ lastEvent.type = "submit"
  /\ ~pending
  /\ inputValue = <<" ", " ">>
  /\ Len(calls) = 1
  /\ Len(log) = 2

\* C3: an accepted submit appends exactly one user turn carrying the trimmed
\* input to history, and the request it issues carries the whole history
\* after that append, so its last entry is that user turn.
C3_UserTurnPrecedesRequest ==
  [][(lastEvent'.type = "submit" /\ Trim(inputValue) # <<>> /\ ~pending)
       => /\ history' = Append(history, UserTurn(Trim(inputValue)))
          /\ Len(calls') = Len(calls) + 1
          /\ calls'[Len(calls')].pc = "fetch"
          /\ calls'[Len(calls')].body.history = history'
          /\ calls'[Len(calls')].body.history[Len(history')]
               = UserTurn(Trim(inputValue))]_vars

\* The second request has just been issued, carrying the first exchange too
C3_Witness ==
  /\ lastEvent.type = "submit"
  /\ Len(calls) = 2
  /\ calls[2].pc = "fetch"
  /\ calls[2].body.history = history
  /\ Len(history) >= 3
  /\ history[Len(history)] = UserTurn(<<"a">>)

\* C4: pending is true exactly while a request is in flight, and the text
\* field and the send control are both disabled when pending is true and
\* both enabled when it is false.
C4_PendingIffInFlight ==
  /\ pending <=> InFlight # {}
  /\ inputDisabled = pending
  /\ sendDisabled = pending

\* The body of the only request is being parsed
C4_Witness ==
  /\ pending
  /\ inputDisabled
  /\ InFlight = {1}
  /\ calls[1].pc = "json"

\* C5: the step that completes an exchange, whatever its outcome and whether
\* or not the panel is open, ends with pending false, the text field enabled
\* and focus in the text field.
C5_CompletionRestoresInput ==
  [][lastEvent'.type \in Completions
       => /\ ~pending'
          /\ ~inputDisabled'
          /\ focus' = "input"]_vars

\* An application-level failure has just been delivered with the panel closed
C5_Witness ==
  /\ lastEvent.type = "jsonResolve"
  /\ ~Succeeded(lastEvent)
  /\ ~open
  /\ ~pending
  /\ focus = "input"

\* The placeholder row of call i shows an outcome: an error (meta), or the
\* reply recorded as the assistant turn that answers the request
RowResolved(i) ==
  LET row == log[calls[i].assistantNode]
      n == Len(calls[i].body.history)
  IN  \/ "meta" \in row.classes
      \/ /\ Len(history) > n
         /\ history[n + 1] = [role |-> "assistant", text |-> row.text]

\* C6: under the assumption that fetch and response.json() each eventually
\* resolve or reject, a request in flight always leads to a state where
\* pending is false and every placeholder row shows an outcome.
C6_EveryExchangeCompletes ==
  (InFlight # {})
    ~> (/\ ~pending
        /\ InFlight = {}
        /\ \A i \in DOMAIN calls : RowResolved(i))

\* An exchange has completed with a malformed body and the widget is idle
C6_Witness ==
  /\ lastEvent.type = "jsonReject"
  /\ Len(calls) = 1
  /\ calls[1].pc = "done"
  /\ ~pending
  /\ RowResolved(1)

\* C7: an accepted submit grows history by the user turn; the step that
\* completes that exchange leaves history equal to the history sent with the
\* request plus one assistant turn if the exchange succeeded, and equal to
\* the history sent if it failed; every other step leaves history unchanged.
C7_HistoryGrowth ==
  [][LET ev == lastEvent'
         sent == calls[ev.call].body.history
     IN  IF ev.type \in Completions
         THEN /\ sent[Len(sent)].role = "user"
              /\ IF Succeeded(ev)
                 THEN /\ Len(history') = Len(sent) + 1
                      /\ SubSeq(history', 1, Len(sent)) = sent
                      /\ history'[Len(history')].role = "assistant"
                 ELSE history' = sent
         ELSE IF Len(calls') > Len(calls)
         THEN /\ Len(history') = Len(history) + 1
              /\ SubSeq(history', 1, Len(history)) = history
              /\ history'[Len(history')].role = "user"
              /\ calls'[Len(calls')].body.history = history'
         ELSE history' = history]_vars

\* A successful exchange has just completed: system, user, assistant
C7_Witness ==
  /\ Succeeded(lastEvent)
  /\ Len(calls) = 1
  /\ Len(history) = 3
  /\ history[2].role = "user"
  /\ history[3].role = "assistant"

\* "Network error. Please try again."
C8_NetworkErrorText ==
  <<"N", "e", "t", "w", "o", "r", "k", " ", "e", "r", "r", "o", "r", ".", " ", "P",
    "l", "e", "a", "s", "e", " ", "t", "r", "y", " ", "a", "g", "a", "i", "n", ".">>

\* C8: when fetch rejects, history is the history sent with the request (the
\* length before the submit plus one, ending with the user turn), the
\* placeholder row is marked "meta" with the network-error text, and pending
\* is cleared.
C8_TransportFailure ==
  [][lastEvent'.type = "fetchReject"
       => LET call == calls[lastEvent'.call]
              row == log'[call.assistantNode]
          IN  /\ history' = call.body.history
              /\ history'[Len(history')].role = "user"
              /\ "meta" \in row.classes
              /\ row.text = C8_NetworkErrorText
              /\ ~pending']_vars

\* The second exchange has just failed in transport after a first success
C8_Witness ==
  /\ lastEvent.type = "fetchReject"
  /\ lastEvent.call = 2
  /\ Len(history) = 4
  /\ log[4].text = C8_NetworkErrorText
  /\ "meta" \in log[4].classes
  /\ ~pending

\* "Invalid response from server."
C9_InvalidResponseText ==
  <<"I", "n", "v", "a", "l", "i", "d", " ", "r", "e", "s", "p", "o", "n", "s", "e",
    " ", "f", "r", "o", "m", " ", "s", "e", "r", "v", "e", "r", ".">>

\* C9: when response.json() rejects, whatever the status of the response,
\* the placeholder row is marked "meta" with the invalid-response text,
\* pending is cleared and history is the history sent with the request.
C9_MalformedBody ==
  [][lastEvent'.type = "jsonReject"
       => LET call == calls[lastEvent'.call]
              row == log'[call.assistantNode]
          IN  /\ history' = call.body.history
              /\ history'[Len(history')].role = "user"
              /\ "meta" \in row.classes
              /\ row.text = C9_InvalidResponseText
              /\ ~pending']_vars

\* A response with an ok status had a body that could not be parsed
C9_Witness ==
  /\ lastEvent.type = "jsonReject"
  /\ lastEvent.ok
  /\ Len(history) = 2
  /\ log[2].text = C9_InvalidResponseText
  /\ "meta" \in log[2].classes
  /\ ~pending

\* "Could not get a reply"
C10_Prefix ==
  <<"C", "o", "u", "l", "d", " ", "n", "o", "t", " ", "g", "e", "t", " ", "a", " ",
    "r", "e", "p", "l", "y">>

\* "Could not get a reply (rate_limited)."
C10_RateLimitedText ==
  <<"C", "o", "u", "l", "d", " ", "n", "o", "t", " ", "g", "e", "t", " ", "a", " ",
    "r", "e", "p", "l", "y", " ", "(", "r", "a", "t", "e", "_", "l", "i", "m", "i",
    "t", "e", "d", ")", ".">>

\* C10: a parsed response is shown as a reply (row not "meta", assistant turn
\* appended) exactly when the status is ok and the payload has a string text;
\* otherwise the row is "meta", its text starts with "Could not get a reply"
\* and ends with ".", history is the history sent, and pending is cleared.
\* For { error: "rate_limited" } with a non-ok status the text is exactly
\* "Could not get a reply (rate_limited).".
C10_ApplicationFailure ==
  [][lastEvent'.type = "jsonResolve"
       => LET ev == lastEvent'
              call == calls[ev.call]
              row == log'[call.assistantNode]
          IN  /\ ~pending'
              /\ IF ev.ok /\ HasStringText(ev.payload)
                 THEN /\ "meta" \notin row.classes
                      /\ Len(history') = Len(call.body.history) + 1
                      /\ history'[Len(history')].role = "assistant"
                 ELSE /\ "meta" \in row.classes
                      /\ StartsWith(row.text, C10_Prefix)
                      /\ EndsWith(row.text, <<".">>)
                      /\ history' = call.body.history
              /\ (~ev.ok /\ ev.payload = JObj([error |-> JStr(RateLimited)]))
                   => row.text = C10_RateLimitedText]_vars

\* A non-ok response carrying a string text was shown as a failure
C10_Witness ==
  /\ lastEvent.type = "jsonResolve"
  /\ ~lastEvent.ok
  /\ HasStringText(lastEvent.payload)
  /\ "meta" \in log[2].classes
  /\ StartsWith(log[2].text, C10_Prefix)
  /\ Len(history) = 2

\* The sources of the detail suffix, each as a sequence holding the string
\* it yields, or empty if it yields none
C11_FromMessage(payload) ==
  IF /\ "message" \in DOMAIN payload.v
     /\ payload.v["message"].t = "string"
     /\ Trim(payload.v["message"].v) # <<>>
  THEN <<Trim(payload.v["message"].v)>>
  ELSE <<>>

C11_FromError(payload) ==
  IF /\ "error" \in DOMAIN payload.v
     /\ payload.v["error"].t = "string"
     /\ payload.v["error"].v # <<>>
  THEN <<payload.v["error"].v>>
  ELSE <<>>

C11_FromDetails(payload) ==
  IF "details" \in DOMAIN payload.v
       /\ payload.v["details"].t = "object"
       /\ "error" \in DOMAIN payload.v["details"].v
  THEN LET err == payload.v["details"].v["error"]
       IN  IF err.t = "string" /\ err.v # <<>> THEN <<err.v>>
           ELSE IF err.t = "object"
                     /\ "message" \in DOMAIN err.v
                     /\ err.v["message"].t = "string"
           THEN <<err.v["message"].v>>
           ELSE <<>>
  ELSE <<>>

\* The first source that yields a string, later sources being tried whenever
\* an earlier one yields none
C11_FirstMatch(payload) ==
  IF payload.t # "object" THEN <<>>
  ELSE C11_FromMessage(payload) \o C11_FromError(payload)
         \o C11_FromDetails(payload)

C11_Suffix(payload) ==
  IF C11_FirstMatch(payload) = <<>>
  THEN <<>>
  ELSE <<" ", "(">> \o Head(C11_FirstMatch(payload)) \o <<")">>

\* C11: on an application-level failure the text is "Could not get a reply",
\* the parenthesized first string among message, error and details.error
\* (a later source being tried whenever an earlier one yields no string),
\* and "."; the suffix is absent only if no source yields a string.
C11_DetailFirstMatchWins ==
  [][(lastEvent'.type = "jsonResolve" /\ ~Succeeded(lastEvent'))
       => log'[calls[lastEvent'.call].assistantNode].text
            = C10_Prefix \o C11_Suffix(lastEvent'.payload) \o <<".">>]_vars

\* details.error of the payload is an object with a string message
C12_NestedMessage(payload) ==
  /\ payload.t = "object"
  /\ "details" \in DOMAIN payload.v
  /\ payload.v["details"].t = "object"
  /\ "error" \in DOMAIN payload.v["details"].v
  /\ payload.v["details"].v["error"].t = "object"
  /\ "message" \in DOMAIN payload.v["details"].v["error"].v
  /\ payload.v["details"].v["error"].v["message"].t = "string"

\* "Could not get a reply (bad token)."
C12_BadTokenText ==
  <<"C", "o", "u", "l", "d", " ", "n", "o", "t", " ", "g", "e", "t", " ", "a", " ",
    "r", "e", "p", "l", "y", " ", "(", "b", "a", "d", " ", "t", "o", "k", "e", "n",
    ")", ".">>

\* C12: a failing response whose message and error fields yield no string
\* and whose details.error is an object with a string message m is shown as
\* "Could not get a reply (m)."; for
\* { details: { error: { message: "bad token" } } } that is
\* "Could not get a reply (bad token).".
C12_NestedMessageShown ==
  [][(/\ lastEvent'.type = "jsonResolve"
      /\ ~Succeeded(lastEvent')
      /\ C12_NestedMessage(lastEvent'.payload)
      /\ C11_FromMessage(lastEvent'.payload) = <<>>
      /\ C11_FromError(lastEvent'.payload) = <<>>)
       => LET text == log'[calls[lastEvent'.call].assistantNode].text
              m == lastEvent'.payload.v["details"].v["error"].v["message"].v
          IN  /\ text = C10_Prefix \o <<" ", "(">> \o m \o <<")", ".">>
              /\ m = BadToken => text = C12_BadTokenText]_vars

\* "I do not have an answer right now."
C13_Fallback ==
  <<"I", " ", "d", "o", " ", "n", "o", "t", " ", "h", "a", "v", "e", " ", "a", "n",
    " ", "a", "n", "s", "w", "e", "r", " ", "r", "i", "g", "h", "t", " ", "n", "o",
    "w", ".">>

\* C13: on success the placeholder row shows the trimmed reply, or the
\* fallback phrase when the trimmed reply is empty; the row is not "meta";
\* and the assistant turn appended to history carries the displayed text.
C13_SuccessShowsTrimmedReply ==
  [][Succeeded(lastEvent')
       => LET reply == lastEvent'.payload.v["text"].v
              row == log'[calls[lastEvent'.call].assistantNode]
          IN  /\ row.text = IF Trim(reply) = <<>> THEN C13_Fallback
                            ELSE Trim(reply)
              /\ reply = <<" ", "h", "i", " ">> => row.text = <<"h", "i">>
              /\ row.text # <<>>
              /\ "meta" \notin row.classes
              /\ history' = Append(history,
                              [role |-> "assistant", text |-> row.text])]_vars

\* A whitespace-only reply was recorded in history as the fallback phrase
C13_Witness ==
  /\ Succeeded(lastEvent)
  /\ Trim(lastEvent.payload.v["text"].v) = <<>>
  /\ log[2].text = C13_Fallback
  /\ history[Len(history)] = [role |-> "assistant", text |-> C13_Fallback]

\* C14: history only grows at its end (each step leaves the old history as
\* a prefix of the new one), its first element is the system turn set at
\* initialization, and no other element is a system turn.
C14_HistoryAppendOnly ==
  /\ [](mounted =>
          /\ history # <<>>
          /\ history[1] = [role |-> "system", text |-> SystemPrompt]
          /\ \A i \in 2..Len(history) : history[i].role # "system")
  /\ [][/\ Len(history') >= Len(history)
        /\ SubSeq(history', 1, Len(history)) = history]_vars

\* Two successful exchanges: system, user, assistant, user, assistant
C14_Witness ==
  /\ Len(history) = 5
  /\ history[1].role = "system"
  /\ history[3].role = "assistant"
  /\ history[5].role = "assistant"
  /\ Succeeded(lastEvent)

\* C15: a toggle click flips open whether or not a request is pending and
\* changes neither pending, history, the log nor the request in flight; no
\* other event changes open.
C15_OpenIndependentOfPending ==
  [][IF lastEvent'.type = "click"
     THEN /\ open' = ~open
          /\ UNCHANGED <<inputDisabled, sendDisabled, history, log, calls>>
     ELSE open' = open]_vars

\* The panel was opened by a click while the request was unresolved
C15_Witness ==
  /\ lastEvent.type = "click"
  /\ open
  /\ pending
  /\ calls[1].pc = "fetch"

\* The other three combinations of open and pending
C15_ClosedAndPending ==
  ~open /\ pending /\ lastEvent.type = "click"

C15_OpenAndIdle ==
  open /\ ~pending /\ lastEvent.type \in Completions

C15_ClosedAndIdle ==
  ~open /\ ~pending /\ lastEvent.type \in Completions

\* C16 as stated: each click flips open, and focus is moved into the text
\* field exactly on the transitions from closed to open.
C16_FocusOnEveryOpening ==
  [][lastEvent'.type = "click"
       => /\ open' = ~open
          /\ open' => focus' = "input"
          /\ ~open' => (focus' = "input" => focus = "input")]_vars

\* C16 amended: each click flips open; a click that opens the panel moves
\* focus into the text field when no request is pending; a click that closes
\* the panel, or that opens it while a request is pending (the field is then
\* disabled), never moves focus into the text field.
C16_FocusOnOpeningWhenEnabled ==
  [][lastEvent'.type = "click"
       => /\ open' = ~open
          /\ (open' /\ ~pending) => focus' = "input"
          /\ (~open' \/ pending) => (focus' = "input" => focus = "input")]_vars

\* The panel was opened during a request and focus is not in the text field
C16_Witness ==
  /\ lastEvent.type = "click"
  /\ open
  /\ pending
  /\ focus = "toggle"

\* C17: the widget is mounted only on a page whose body carries a non-empty
\* lessonKey; on any other page nothing was created, no listener ever runs
\* and no request is issued.
C17_InactiveWithoutLessonKey ==
  /\ mounted => (host.body /\ host.lessonKey.t = "string"
                   /\ host.lessonKey.v # <<>>)
  /\ (~host.body \/ host.lessonKey.t # "string" \/ host.lessonKey.v = <<>>)
       => /\ ~mounted
          /\ history = <<>>
          /\ log = <<>>
          /\ containerClasses = {}
          /\ calls = <<>>
          /\ lastEvent.type = "load"

\* A page with a body whose lessonKey is the empty string
C17_Witness ==
  /\ host.body
  /\ host.lessonKey = JStr(<<>>)
  /\ ~mounted
  /\ history = <<>>

TextsOf(s) ==
  [i \in 1..Len(s) |-> s[i].text]

IsUserTurn(turn) ==
  turn.role = "user"

IsAssistantTurn(turn) ==
  turn.role = "assistant"

IsMeRow(row) ==
  "me" \in row.classes

IsReplyRow(row) ==
  "bot" \in row.classes /\ "meta" \notin row.classes

\* C18: the log has two rows per user turn of history; the texts of the "me"
\* rows are the texts of the user turns, in order; when pending is false the
\* texts of the "bot" rows without "meta" are the texts of the assistant
\* turns, in order; an accepted submit adds a "me" row and then a "bot" row,
\* and no other step changes the number of rows.
C18_LogAlignedWithHistory ==
  /\ [](/\ Len(log) = 2 * Len(SelectSeq(history, IsUserTurn))
        /\ TextsOf(SelectSeq(log, IsMeRow))
             = TextsOf(SelectSeq(history, IsUserTurn))
        /\ ~pending =>
             TextsOf(SelectSeq(log, IsReplyRow))
               = TextsOf(SelectSeq(history, IsAssistantTurn)))
  /\ [][IF Len(calls') > Len(calls)
        THEN /\ Len(log') = Len(log) + 2
             /\ SubSeq(log', 1, Len(log)) = log
             /\ "me" \in log'[Len(log) + 1].classes
             /\ "bot" \in log'[Len(log) + 2].classes
        ELSE Len(log') = Len(log)]_vars

\* A failed exchange followed by a successful one: four rows, two user turns
\* with different texts, one assistant turn
C18_Witness ==
  /\ Len(log) = 4
  /\ ~pending
  /\ "meta" \in log[2].classes
  /\ log[1].text # log[3].text
  /\ TextsOf(SelectSeq(log, IsReplyRow)) = << <<"h", "i">> >>
  /\ Len(SelectSeq(history, IsAssistantTurn)) = 1

\* C19: the step that completes an exchange changes only the placeholder row
\* created by its own submit, which is then the last row of the log; no
\* other step changes a row; a "meta" mark is never removed; while pending
\* is true the last row is a "bot" row with text "..." and no "meta" mark.
C19_OnlyPlaceholderChanges ==
  /\ [](pending =>
          /\ log # <<>>
          /\ log[Len(log)]
               = [classes |-> {"lesson-chat-row", "bot"}, text |-> Ellipsis])
  /\ [][\A k \in 1..Len(log) :
          /\ k <= Len(log')
          /\ "meta" \in log[k].classes => "meta" \in log'[k].classes
          /\ log'[k] # log[k] =>
               /\ lastEvent'.type \in Completions
               /\ k = calls[lastEvent'.call].assistantNode
               /\ k = 2 * lastEvent'.call
               /\ k = Len(log)]_vars

\* The second exchange has completed and the rows of the first, a failure,
\* are as the first exchange left them
C19_Witness ==
  /\ lastEvent.type \in Completions
  /\ lastEvent.call = 2
  /\ Len(log) = 4
  /\ log[2] = [classes |-> {"lesson-chat-row", "bot", "meta"},
               text |-> NetworkErrorText]
  /\ log[4].text # Ellipsis

\* C20: every assistant turn of history directly follows a user turn (so no
\* two assistant turns are adjacent); a failed exchange leaves its user turn
\* in history with no assistant turn after it, so in history and in every
\* later request the turn after it is a user turn.
C20_AssistantFollowsUser ==
  /\ \A i \in DOMAIN history :
       history[i].role = "assistant"
         => (i > 1 /\ history[i - 1].role = "user")
  /\ \A i \in DOMAIN calls :
       (calls[i].pc = "done" /\ "meta" \in log[2 * i].classes)
         => LET n == Len(calls[i].body.history)
            IN  /\ history[n].role = "user"
                /\ Len(history) > n => history[n + 1].role = "user"
                /\ \A j \in DOMAIN calls :
                     j > i =>
                       /\ Len(calls[j].body.history) > n
                       /\ calls[j].body.history[n] = history[n]
                       /\ calls[j].body.history[n + 1].role = "user"

\* The request after a failed exchange carries two consecutive user turns
C20_Witness ==
  /\ Len(calls) = 2
  /\ calls[2].pc = "fetch"
  /\ "meta" \in log[2].classes
  /\ Len(calls[2].body.history) = 3
  /\ calls[2].body.history[2].role = "user"
  /\ calls[2].body.history[3].role = "user"

====
